---- MODULE Spec2Model ----
(***************************************************************************)
(* A model of babyberta/dataset.py: the DataSet class that filters raw     *)
(* sequences by tokenized length, generates mask patterns, chunks the      *)
(* (sequence, mask pattern) records into batches and masks each batch.     *)
(*                                                                         *)
(* Modelling conventions                                                   *)
(*  - a raw sequence (a Python str) is a record [tokens, words]: the       *)
(*    number of tokens the tokenizer returns for it and len(s.split()).    *)
(*  - a mask pattern (an ascending tuple of distinct indices) is the set   *)
(*    of its indices.                                                      *)
(*  - a probability is an exact rational [num, den] with den > 0.          *)
(*  - a value that may be None is a record [none, ...] (self.data, y), or,  *)
(*    where the code only reads its truth value or where no real value is  *)
(*    empty, the empty tuple (the data argument, unmask, rand_mask).       *)
(*  - an exception is recorded by its class name in pc / gpc / mpc.        *)
(***************************************************************************)
EXTENDS Integers, Sequences, FiniteSets, TLC

VARIABLES
    params,                       \* self.params
    _sequences,                   \* self._sequences
    data_arg,                     \* the constructor's data argument
    tokenized_sequence_lengths,   \* self.tokenized_sequence_lengths
    sequences,                    \* self.sequences
    data,                         \* self.data
    num_batches,                  \* __init__'s local num_batches
    leave_unmasked_probabilities, \* self.leave_unmasked_probabilities (what is left of the iterator)
    pc,                           \* where the DataSet object is in its life
    seq_idx,                      \* _gen_sequences_and_mask_patterns: position of the for loop
    gpc,                          \* _gen_make_mask_patterns: position of the generator
    num_tokens_after_truncation,  \* _gen_make_mask_patterns: its argument
    pattern_size,                 \* _gen_make_mask_patterns: local
    all_mask_patterns,            \* _gen_make_mask_patterns: local
    num_patterns,                 \* _gen_make_mask_patterns: local
    predetermined_patterns,       \* _gen_make_mask_patterns: local (what is left of the iterator)
    num_yielded,                  \* _gen_make_mask_patterns: local
    yielded,                      \* the patterns the generator call has yielded, in order
    pass,                         \* how many times __iter__ has been started
    start_ids,                    \* _gen_data_chunks: what is left of start_ids
    drawn_start_ids,              \* _gen_data_chunks: start_ids as drawn
    chunks,                       \* what _gen_data_chunks has yielded in this pass
    batches,                      \* what __iter__ has yielded in this pass
    mpc,                          \* mask_input_ids: position
    batch_encoding,               \* mask_input_ids: argument
    mask_patterns,                \* mask_input_ids: argument
    mask,                         \* mask_input_ids: local
    unmask,                       \* mask_input_ids: local
    rand_mask,                    \* mask_input_ids: local
    mask_insertion_matrix,        \* mask_input_ids: local
    input_ids,                    \* mask_input_ids: x['input_ids']
    y                             \* mask_input_ids: y

objVars  == <<params, _sequences, data_arg, tokenized_sequence_lengths, sequences,
              data, num_batches, leave_unmasked_probabilities, pc, seq_idx>>
genVars  == <<gpc, num_tokens_after_truncation, pattern_size, all_mask_patterns,
              num_patterns, predetermined_patterns, num_yielded, yielded>>
iterVars == <<pass, start_ids, drawn_start_ids, chunks, batches>>
maskVars == <<mpc, batch_encoding, mask_patterns, mask, unmask, rand_mask,
              mask_insertion_matrix, input_ids, y>>
vars     == <<objVars, genVars, iterVars, maskVars>>

(***************************************************************************)
(* Bounds of the model.                                                    *)
(***************************************************************************)
MaxSeqs       == 3   \* raw sequences handed to the Sequence Filter
MaxTokens     == 3   \* tokens in one raw sequence
MaxMaxLen     == 5   \* max_num_tokens_in_sequence
MaxGenTokens  == 3   \* token count handed to one generator call
MaxPatternSize == 3  \* mask_pattern_size
MaxNumPatterns == 3  \* num_mask_patterns
ProbDen       == 3   \* configured probabilities are multiples of 1 / ProbDen

(***************************************************************************)
(* Helpers: Python built-ins used by the code.                             *)
(***************************************************************************)
Min(a, b) == IF a <= b THEN a ELSE b

Rat(n, d) == [num |-> n, den |-> d]

RatAdd(p, q) == Rat(p.num * q.den + q.num * p.den, p.den * q.den)

RatIsZero(p) == p.num = 0

RatIsPositive(p) == p.num > 0

\* np.random.rand() < p and random.random() < p draw from [0, 1): the outcomes
\* the comparison can have.
RandLess(p) == {b \in BOOLEAN : (b => p.num > 0) /\ (~b => p.num < p.den)}

\* None where the code reads only the truth value of a list, and None for a
\* matrix (a matrix of a batch has at least one row)
None == <<>>

\* self.data: None or a list
NoData == [none |-> TRUE, list |-> <<>>]

SomeData(l) == [none |-> FALSE, list |-> l]

\* raw sequences of up to maxTokens tokens: len(s.split()) is the token count,
\* or one less when the tokenizer splits a word into sub-words
Strings(maxTokens) ==
    {s \in [tokens : 0..maxTokens, words : 0..maxTokens] :
        s.words \in {s.tokens, s.tokens - 1}}

SeqsUpTo(S, lo, hi) == UNION {[1..k -> S] : k \in lo..hi}

\* class ProbingParams. Its None fields and the attributes it lacks are only
\* read when mask patterns are generated, which for_probing never asks for:
\* they hold FALSE, 0 and "auto" here.
ProbingParams ==
    [probing |-> TRUE,
     sample_with_replacement |-> FALSE,
     max_num_tokens_in_sequence |-> 256,
     leave_unmasked_prob_start |-> Rat(0, 1),
     leave_unmasked_prob |-> Rat(0, 1),
     random_token_prob |-> Rat(0, 1),
     consecutive_masking |-> FALSE,
     mask_pattern_size |-> 0,
     num_mask_patterns |-> 0,
     allow_truncated_sentences |-> FALSE,
     batch_size |-> 32,
     probabilistic_masking |-> FALSE,
     mask_probability |-> [auto |-> TRUE, value |-> Rat(0, 1)]]

\* an instance of babyberta.params.Params: every field is configuration
TrainParams ==
    [probing |-> FALSE,
     sample_with_replacement |-> FALSE,
     max_num_tokens_in_sequence |-> MaxMaxLen,
     leave_unmasked_prob_start |-> Rat(0, ProbDen),
     leave_unmasked_prob |-> Rat(0, ProbDen),
     random_token_prob |-> Rat(0, ProbDen),
     consecutive_masking |-> TRUE,
     mask_pattern_size |-> 1,
     num_mask_patterns |-> 1,
     allow_truncated_sentences |-> FALSE,
     batch_size |-> 1,
     probabilistic_masking |-> FALSE,
     mask_probability |-> [auto |-> TRUE, value |-> Rat(0, ProbDen)]]

(***************************************************************************)
(* Sequence Filter: DataSet._get_tokenized_sequence_lengths.               *)
(***************************************************************************)
\* exclude sequence if too many tokens
TooLargeOffByOne(num_tokens, p) ==
    ~p.allow_truncated_sentences /\ num_tokens + 2 >= p.max_num_tokens_in_sequence

TooLarge(num_tokens, p) ==
    LET num_tokens_and_special_symbols == num_tokens + 2
    IN  ~p.allow_truncated_sentences
        /\ num_tokens_and_special_symbols > p.max_num_tokens_in_sequence

\* the for loop of _get_tokenized_sequence_lengths from its i-th sequence on,
\* with the two lists built so far, and the function's end
RECURSIVE FilterLoop(_, _, _, _, _)
FilterLoop(seqs, p, i, lengths, kept) ==
    IF i > Len(seqs)
    THEN IF Len(kept) = 0
         THEN [err |-> "ZeroDivisionError", lengths |-> lengths, sequences |-> kept]
         ELSE [err |-> "ok", lengths |-> lengths, sequences |-> kept]
    ELSE LET s == seqs[i]
             num_tokens == s.tokens
         IN  IF p.probing /\ num_tokens # s.words
             THEN [err |-> "RuntimeError", lengths |-> lengths, sequences |-> kept]
             ELSE IF TooLarge(num_tokens, p)
                  THEN FilterLoop(seqs, p, i + 1, lengths, kept)
                  ELSE FilterLoop(seqs, p, i + 1,
                                  Append(lengths, Min(p.max_num_tokens_in_sequence - 2, num_tokens)),
                                  Append(kept, s))

GetTokenizedSequenceLengths(seqs, p) == FilterLoop(seqs, p, 1, <<>>, <<>>)

(***************************************************************************)
(* Construction: DataSet.for_probing and DataSet.__init__.                 *)
(***************************************************************************)
\* DataSet.for_probing: the data it hands to the constructor, one record per
\* sequence, the pattern being the indices of the tokens that end with the
\* mask symbol (any set of the sequence's token indices)
ForProbingData(seqs) ==
    {[i \in 1..Len(seqs) |-> <<seqs[i], f[i]>>] :
        f \in {g \in [1..Len(seqs) -> SUBSET (0..(MaxTokens - 1))] :
                 \A i \in 1..Len(seqs) : g[i] \subseteq 0..(seqs[i].tokens - 1)}}

\* Python's truth value of a list or None
Falsy(l) == l = <<>>

RatLess(p, q) == p.num * q.den < q.num * p.den

RatLeq(p, q) == p.num * q.den <= q.num * p.den

\* the three asserts of __init__
ParamsAsserts(p) ==
    /\ RatLeq(Rat(0, 1), p.leave_unmasked_prob_start)
    /\ RatLess(p.leave_unmasked_prob_start, Rat(1, 1))
    /\ RatLeq(p.leave_unmasked_prob_start, p.leave_unmasked_prob)
    /\ RatLeq(p.leave_unmasked_prob, Rat(1, 1))
    /\ RatLeq(Rat(0, 1), p.random_token_prob)
    /\ RatLeq(p.random_token_prob, Rat(1, 1))

\* __init__ up to the early return of an empty dataset
DataSetInit ==
    /\ pc = "new"
    /\ IF ~ParamsAsserts(params)
       THEN pc' = "AssertionError" /\ UNCHANGED data
       ELSE IF _sequences = <<>>
            THEN pc' = "constructed" /\ data' = NoData
            ELSE pc' = "filter" /\ UNCHANGED data
    /\ UNCHANGED <<params, _sequences, data_arg, tokenized_sequence_lengths, sequences,
                   num_batches, leave_unmasked_probabilities, seq_idx>>
    /\ UNCHANGED <<genVars, iterVars, maskVars>>

\* __init__: self.tokenized_sequence_lengths, self.sequences = self._get_tokenized_sequence_lengths()
CallFilter ==
    /\ pc = "filter"
    /\ LET r == GetTokenizedSequenceLengths(_sequences, params)
       IN  IF r.err = "ok"
           THEN /\ tokenized_sequence_lengths' = r.lengths
                /\ sequences' = r.sequences
                /\ pc' = "filtered"
           ELSE /\ pc' = r.err
                /\ UNCHANGED <<tokenized_sequence_lengths, sequences>>
    /\ UNCHANGED <<params, _sequences, data_arg, data, num_batches,
                   leave_unmasked_probabilities, seq_idx>>
    /\ UNCHANGED <<genVars, iterVars, maskVars>>

\* __init__: if not data: start list(self._gen_sequences_and_mask_patterns()), else self.data = data
BeginData ==
    /\ pc = "filtered"
    /\ IF Falsy(data_arg)
       THEN data' = SomeData(<<>>) /\ seq_idx' = 1 /\ pc' = "patterns"
       ELSE data' = SomeData(data_arg) /\ pc' = "curriculum" /\ UNCHANGED seq_idx
    /\ UNCHANGED <<params, _sequences, data_arg, tokenized_sequence_lengths, sequences,
                   num_batches, leave_unmasked_probabilities>>
    /\ UNCHANGED <<genVars, iterVars, maskVars>>

(***************************************************************************)
(* Mask-Pattern Generator: DataSet._gen_make_mask_patterns.                *)
(***************************************************************************)
\* itertools.combinations(range(n), r) as a set of index sets
Combinations(n, r) == {S \in SUBSET (0..(n - 1)) : Cardinality(S) = r}

\* random.sample(population, k): k distinct members in any order
RandomSample(population, k) ==
    {f \in [1..k -> population] : \A i, j \in 1..k : f[i] = f[j] => i = j}

\* the generator's prologue, run when it is first advanced
GenCall ==
    /\ pc = "patterns"
    /\ gpc = "idle"
    /\ seq_idx <= Len(sequences)
    /\ LET n == tokenized_sequence_lengths[seq_idx]
           size == Min(params.mask_pattern_size, n)
       IN  IF size < 0
           THEN \* combinations() refuses a negative r
                /\ gpc' = "ValueError"
                /\ num_tokens_after_truncation' = n
                /\ UNCHANGED <<pattern_size, all_mask_patterns, num_patterns,
                               predetermined_patterns, num_yielded, yielded>>
           ELSE LET all == Combinations(n, size)
                    num == Min(params.num_mask_patterns, Cardinality(all))
                IN  \E sample \in RandomSample(all, num) :
                        /\ gpc' = "loop"
                        /\ num_tokens_after_truncation' = n
                        /\ pattern_size' = size
                        /\ all_mask_patterns' = all
                        /\ num_patterns' = num
                        /\ predetermined_patterns' = sample
                        /\ num_yielded' = 0
                        /\ yielded' = <<>>
    /\ UNCHANGED <<objVars, iterVars, maskVars>>

\* the patterns one pass of the probabilistic branch can build with inclusion
\* probability prob: index i is in when random.random() < prob
ProbabilisticPatterns(n, prob) ==
    {S \in SUBSET (0..(n - 1)) :
        \A i \in 0..(n - 1) : (i \in S) \in RandLess(prob)}

\* isinstance(mask_probability, float) and 0 < mask_probability < 1
ValidMaskProbability(mp) == ~mp.auto /\ 0 < mp.value.num /\ mp.value.num < mp.value.den

\* what the body of the while loop obtains as mask_pattern, or what it raises
DrawMaskPattern ==
    IF params.probabilistic_masking
    THEN IF params.mask_probability.auto
         THEN IF num_tokens_after_truncation = 0
              THEN {[err |-> "ZeroDivisionError", mask_pattern |-> {}]}
              ELSE {[err |-> "ok", mask_pattern |-> S] :
                      S \in ProbabilisticPatterns(num_tokens_after_truncation,
                               Rat(params.mask_pattern_size, num_tokens_after_truncation))}
         ELSE IF ValidMaskProbability(params.mask_probability)
              THEN {[err |-> "ok", mask_pattern |-> S] :
                      S \in ProbabilisticPatterns(num_tokens_after_truncation,
                                                  params.mask_probability.value)}
              ELSE {[err |-> "AttributeError", mask_pattern |-> {}]}
    ELSE IF predetermined_patterns = <<>>
         THEN \* next() raises StopIteration inside a generator: RuntimeError (PEP 479)
              {[err |-> "RuntimeError", mask_pattern |-> {}]}
         ELSE {[err |-> "ok", mask_pattern |-> Head(predetermined_patterns)]}

\* whether the loop counts and yields the pattern: `if mask_pattern:`
Truthy(mask_pattern) == mask_pattern # {}

\* one test of the while condition and, if it holds, one run of the loop body
GenStep ==
    /\ pc = "patterns"
    /\ gpc = "loop"
    /\ IF ~(num_yielded < num_patterns)
       THEN /\ gpc' = "done"
            /\ UNCHANGED <<predetermined_patterns, num_yielded, yielded>>
       ELSE \E d \in DrawMaskPattern :
               IF d.err # "ok"
               THEN /\ gpc' = d.err
                    /\ UNCHANGED <<predetermined_patterns, num_yielded, yielded>>
               ELSE /\ predetermined_patterns' =
                          IF params.probabilistic_masking
                          THEN predetermined_patterns
                          ELSE Tail(predetermined_patterns)
                    /\ IF Truthy(d.mask_pattern)
                       THEN /\ num_yielded' = num_yielded + 1
                            /\ yielded' = Append(yielded, d.mask_pattern)
                       ELSE UNCHANGED <<num_yielded, yielded>>
                    /\ gpc' = "loop"
    /\ UNCHANGED <<num_tokens_after_truncation, pattern_size, all_mask_patterns, num_patterns>>
    /\ UNCHANGED <<objVars, iterVars, maskVars>>

GenErrors == {"ValueError", "ZeroDivisionError", "AttributeError", "RuntimeError"}

\* _gen_sequences_and_mask_patterns: the inner for loop has ended; every (s, mp)
\* of this sequence has gone to the list under construction; next sequence
GenReturn ==
    /\ pc = "patterns"
    /\ gpc = "done"
    /\ data' = SomeData(data.list \o
                        [i \in 1..Len(yielded) |-> <<sequences[seq_idx], yielded[i]>>])
    /\ seq_idx' = seq_idx + 1
    /\ gpc' = "idle"
    /\ UNCHANGED <<params, _sequences, data_arg, tokenized_sequence_lengths, sequences,
                   num_batches, leave_unmasked_probabilities, pc>>
    /\ UNCHANGED <<num_tokens_after_truncation, pattern_size, all_mask_patterns,
                   num_patterns, predetermined_patterns, num_yielded, yielded>>
    /\ UNCHANGED <<iterVars, maskVars>>

\* an exception of the generator leaves list(...) and __init__
GenRaise ==
    /\ pc = "patterns"
    /\ gpc \in GenErrors
    /\ pc' = gpc
    /\ UNCHANGED <<params, _sequences, data_arg, tokenized_sequence_lengths, sequences,
                   data, num_batches, leave_unmasked_probabilities, seq_idx>>
    /\ UNCHANGED <<genVars, iterVars, maskVars>>

\* random.shuffle(l): any rearrangement of l
Shuffles(l) ==
    {[i \in 1..Len(l) |-> l[f[i]]] :
        f \in {g \in [1..Len(l) -> 1..Len(l)] : \A i, j \in 1..Len(l) : g[i] = g[j] => i = j}}

\* __init__: list(...) is complete; shuffle unless consecutive masking
EndData ==
    /\ pc = "patterns"
    /\ gpc = "idle"
    /\ seq_idx > Len(sequences)
    /\ IF ~params.consecutive_masking
       THEN \E l \in Shuffles(data.list) : data' = SomeData(l)
       ELSE UNCHANGED data
    /\ pc' = "curriculum"
    /\ UNCHANGED <<params, _sequences, data_arg, tokenized_sequence_lengths, sequences,
                   num_batches, leave_unmasked_probabilities, seq_idx>>
    /\ UNCHANGED <<genVars, iterVars, maskVars>>

\* list(range(0, stop, step)) for step > 0
RangeOfFullChunks(stop, step) == [i \in 1..(stop \div step) |-> (i - 1) * step]

Range(stop, step) == [i \in 1..((stop + step - 1) \div step) |-> (i - 1) * step]

\* np.linspace(start, stop, num) in exact arithmetic
LinspaceNoEndpoint(start, stop, num) ==
    [i \in 1..num |->
        Rat(start.num * stop.den * num
               + (i - 1) * (stop.num * start.den - start.num * stop.den),
            start.den * stop.den * num)]

Linspace(start, stop, num) ==
    [i \in 1..num |->
        IF num = 1
        THEN start
        ELSE Rat(start.num * stop.den * (num - 1)
                    + (i - 1) * (stop.num * start.den - start.num * stop.den),
                 start.den * stop.den * (num - 1))]

\* __init__'s num_batches
NumBatches(num_data, p) ==
    IF p.sample_with_replacement
    THEN num_data \div p.batch_size
    ELSE Len(Range(num_data, p.batch_size))

\* __init__: make curriculum for unmasking
MakeCurriculum ==
    /\ pc = "curriculum"
    /\ num_batches' = NumBatches(Len(data.list), params)
    /\ leave_unmasked_probabilities' =
           Linspace(params.leave_unmasked_prob_start, params.leave_unmasked_prob,
                    NumBatches(Len(data.list), params))
    /\ pc' = "constructed"
    /\ UNCHANGED <<params, _sequences, data_arg, tokenized_sequence_lengths, sequences,
                   data, seq_idx>>
    /\ UNCHANGED <<genVars, iterVars, maskVars>>

(***************************************************************************)
(* Iteration: DataSet.__iter__ over DataSet._gen_data_chunks.              *)
(***************************************************************************)
MaxPasses == 2   \* passes of iteration over one DataSet

\* np.random.randint(low, high, size=size): an array of size draws from
\* low..high-1, ValueError("low >= high") when that range is empty. For
\* size = 0 numpy (1.17 and later) returns the empty array before it looks at
\* the range.
RandInt(low, high, size) ==
    IF size = 0
    THEN {[err |-> "ok", ids |-> <<>>]}
    ELSE IF low >= high
         THEN {[err |-> "ValueError", ids |-> <<>>]}
         ELSE {[err |-> "ok", ids |-> a] : a \in [1..size -> low..(high - 1)]}

\* what _gen_data_chunks computes as start_ids, or what it raises
StartIdsUpToLastFullSlice(num_data, p) ==
    IF p.sample_with_replacement
    THEN RandInt(0, num_data - p.batch_size + 1, num_data \div p.batch_size)
    ELSE {[err |-> "ok", ids |-> Range(num_data, p.batch_size)]}

StartIds(num_data, p) ==
    IF p.sample_with_replacement
    THEN RandInt(0, num_data - p.batch_size, num_data \div p.batch_size)
    ELSE {[err |-> "ok", ids |-> Range(num_data, p.batch_size)]}

\* Python's l[start:end] for 0 <= start
Slice(l, start, end) == SubSeq(l, start + 1, Min(end, Len(l)))

\* a pass starts: __iter__ is called and first advanced, which runs
\* _gen_data_chunks up to its for loop
Iter ==
    /\ pc \in {"constructed", "exhausted"}
    /\ pass < MaxPasses
    /\ pass' = pass + 1
    /\ chunks' = <<>>
    /\ batches' = <<>>
    /\ IF data.none
       THEN \* len(None)
            /\ pc' = "TypeError"
            /\ UNCHANGED <<start_ids, drawn_start_ids>>
       ELSE \E r \in StartIds(Len(data.list), params) :
               IF r.err # "ok"
               THEN /\ pc' = r.err
                    /\ UNCHANGED <<start_ids, drawn_start_ids>>
               ELSE /\ pc' = "iterating"
                    /\ start_ids' = r.ids
                    /\ drawn_start_ids' = r.ids
    /\ UNCHANGED <<params, _sequences, data_arg, tokenized_sequence_lengths, sequences,
                   data, num_batches, leave_unmasked_probabilities, seq_idx>>
    /\ UNCHANGED <<genVars, maskVars>>

\* the consumer asks for the next batch: one round of the loop of
\* _gen_data_chunks, and of __iter__ with its call of mask_input_ids, which
\* takes the next curriculum value
IterNext ==
    /\ pc = "iterating"
    /\ IF start_ids = <<>>
       THEN /\ pc' = "exhausted"
            /\ UNCHANGED <<start_ids, chunks, batches, leave_unmasked_probabilities>>
       ELSE LET num_data == Len(data.list)
                start == Head(start_ids)
                end == Min(num_data, start + params.batch_size)
                chunk == Slice(data.list, start, end)
            IN  /\ start_ids' = Tail(start_ids)
                /\ IF chunk = <<>>
                   THEN \* zip(*[]) has nothing to unpack
                        /\ pc' = "ValueError"
                        /\ UNCHANGED <<chunks, batches, leave_unmasked_probabilities>>
                   ELSE /\ chunks' = Append(chunks, chunk)
                        /\ IF leave_unmasked_probabilities = <<>>
                           THEN \* next() raises StopIteration inside the generator
                                \* mask_input_ids: RuntimeError (PEP 479)
                                /\ pc' = "RuntimeError"
                                /\ UNCHANGED <<batches, leave_unmasked_probabilities>>
                           ELSE /\ batches' = Append(batches,
                                        [records |-> chunk,
                                         leave_unmasked_prob |-> Head(leave_unmasked_probabilities)])
                                /\ leave_unmasked_probabilities' = Tail(leave_unmasked_probabilities)
                                /\ pc' = "iterating"
    /\ UNCHANGED <<params, _sequences, data_arg, tokenized_sequence_lengths, sequences,
                   data, num_batches, seq_idx>>
    /\ UNCHANGED <<pass, drawn_start_ids>>
    /\ UNCHANGED <<genVars, maskVars>>

(***************************************************************************)
(* Mask/Replace Engine: DataSet._make_mask_matrix, DataSet.mask_input_ids. *)
(* A matrix is a sequence of rows; column col_id of numpy is position      *)
(* col_id + 1 of the row.                                                  *)
(***************************************************************************)
\* token ids the tokenizer assigns (utils.load_tokenizer, configs.Data)
BosId  == 0
PadId  == 1
EosId  == 2
MaskId == 4
\* __init__: num_special_tokens, the ids random replacement never draws
num_special_tokens == 6
\* len(self.tokenizer.get_vocab())
VocabSize == 8

Shape(m) == <<Len(m), IF Len(m) = 0 THEN 0 ELSE Len(m[1])>>

TrueCells(m) == {cell \in (1..Len(m)) \X (1..Shape(m)[2]) : m[cell[1]][cell[2]]}

MatAnd(a, b) == [r \in 1..Len(a) |-> [c \in 1..Len(a[r]) |-> a[r][c] /\ b[r][c]]]

MatXor(a, b) == [r \in 1..Len(a) |-> [c \in 1..Len(a[r]) |-> a[r][c] # b[r][c]]]

MatNot(a) == [r \in 1..Len(a) |-> [c \in 1..Len(a[r]) |-> ~a[r][c]]]

\* _make_mask_matrix: col_id = mi + 1
ColIdNoOffset(mi) == mi

ColId(mi) == mi + 1

\* _make_mask_matrix
MakeMaskMatrix(batch_shape, patterns) ==
    IF batch_shape[1] # Len(patterns)
    THEN [err |-> "AssertionError", res |-> <<>>]
    ELSE IF \E r \in 1..Len(patterns) : \E mi \in patterns[r] : ColId(mi) >= batch_shape[2]
         THEN [err |-> "IndexError", res |-> <<>>]
         ELSE [err |-> "ok",
               res |-> [r \in 1..batch_shape[1] |->
                          [c \in 1..batch_shape[2] |->
                             \E mi \in patterns[r] : ColId(mi) + 1 = c]]]

\* np.random.rand(*batch_shape) < prob, as far as it is read: the result is
\* and-ed with `within`, so the draw outside within's cells is left False
RandMatrices(within, prob) ==
    {[r \in 1..Len(within) |-> [c \in 1..Len(within[r]) |-> <<r, c>> \in S]] :
        S \in {T \in SUBSET TrueCells(within) :
                 \A cell \in TrueCells(within) : (cell \in T) \in RandLess(prob)}}

\* the decision of unmasking and random replacement: the pairs (unmask,
\* rand_mask) the draws can give
UnmaskAndRandMask(m, leave_unmasked_prob, p) ==
    LET rand_or_unmask_prob == RatAdd(p.random_token_prob, leave_unmasked_prob)
    IN  IF RatIsPositive(rand_or_unmask_prob)
        THEN UNION {
               LET rand_or_unmask == MatAnd(m, R)
               IN  IF RatIsZero(p.random_token_prob)
                   THEN {[unmask |-> rand_or_unmask, rand_mask |-> None]}
                   ELSE IF RatIsZero(leave_unmasked_prob)
                        THEN {[unmask |-> None, rand_mask |-> rand_or_unmask]}
                        ELSE LET unmask_prob ==
                                     Rat(leave_unmasked_prob.num * rand_or_unmask_prob.den,
                                         leave_unmasked_prob.den * rand_or_unmask_prob.num)
                             IN  {[unmask |-> MatAnd(rand_or_unmask, decision),
                                   rand_mask |-> MatAnd(rand_or_unmask, MatNot(decision))] :
                                     decision \in RandMatrices(rand_or_unmask, unmask_prob)}
               : R \in RandMatrices(m, rand_or_unmask_prob)}
        ELSE {[unmask |-> None, rand_mask |-> None]}

\* mask_insertion_matrix
MaskInsertionIgnoringUnmask(m, um) == m

MaskInsertionMatrix(m, um) == IF um # None THEN MatXor(m, um) ELSE m

\* np.where(mask_insertion_matrix, mask id, input_ids_raw), or the copy
InsertMaskSymbols(insertion, input_ids_raw) ==
    IF TrueCells(insertion) # {}
    THEN [r \in 1..Len(input_ids_raw) |-> [c \in 1..Len(input_ids_raw[r]) |->
            IF insertion[r][c] THEN MaskId ELSE input_ids_raw[r][c]]]
    ELSE input_ids_raw

\* the position of a true cell among the true cells, row-major
Rank(sel, r, c) ==
    Cardinality({cell \in TrueCells(sel) :
                    cell[1] < r \/ (cell[1] = r /\ cell[2] <= c)})

\* input_ids[rand_mask] = np.random.choice(vocab_size, num_rand, p=self.weights):
\* the matrices the draw can give
InsertRandomTokens(ids, rm) ==
    IF rm = None \/ TrueCells(rm) = {}
    THEN {ids}
    ELSE {[r \in 1..Len(ids) |-> [c \in 1..Len(ids[r]) |->
             IF rm[r][c] THEN choice[Rank(rm, r, c)] ELSE ids[r][c]]] :
          choice \in [1..Cardinality(TrueCells(rm)) -> num_special_tokens..(VocabSize - 1)]}

\* a[sel] of numpy for a boolean matrix sel: the selected values, row-major
BoolIndex(a, sel) ==
    LET RowPick(row, selrow) ==
            LET F[c \in 0..Len(row)] ==
                    IF c = 0 THEN <<>>
                    ELSE IF selrow[c] THEN Append(F[c - 1], row[c]) ELSE F[c - 1]
            IN  F[Len(row)]
        G[r \in 0..Len(a)] ==
            IF r = 0 THEN <<>> ELSE G[r - 1] \o RowPick(a[r], sel[r])
    IN  G[Len(a)]

\* mask_input_ids: y
Target(patterns, input_ids_raw, m) ==
    IF patterns = <<>>
    THEN [none |-> TRUE, values |-> <<>>]
    ELSE [none |-> FALSE, values |-> BoolIndex(input_ids_raw, m)]

\* one call of mask_input_ids, run until it has yielded
MaskInputIds ==
    /\ mpc = "call"
    /\ LET input_ids_raw == [r \in 1..Len(batch_encoding) |-> batch_encoding[r].ids]
           batch_shape == Shape(input_ids_raw)
           mm == MakeMaskMatrix(batch_shape, mask_patterns)
       IN  IF mm.err # "ok"
           THEN /\ mpc' = mm.err
                /\ UNCHANGED <<mask, unmask, rand_mask, mask_insertion_matrix, input_ids, y,
                               leave_unmasked_probabilities>>
           ELSE IF batch_shape[2] > params.max_num_tokens_in_sequence
           THEN /\ mpc' = "ValueError"
                /\ mask' = mm.res
                /\ UNCHANGED <<unmask, rand_mask, mask_insertion_matrix, input_ids, y,
                               leave_unmasked_probabilities>>
           ELSE IF leave_unmasked_probabilities = <<>>
           THEN \* next() raises StopIteration inside a generator: RuntimeError (PEP 479)
                /\ mpc' = "RuntimeError"
                /\ mask' = mm.res
                /\ UNCHANGED <<unmask, rand_mask, mask_insertion_matrix, input_ids, y,
                               leave_unmasked_probabilities>>
           ELSE \E d \in UnmaskAndRandMask(mm.res, Head(leave_unmasked_probabilities), params) :
                \E ids \in InsertRandomTokens(
                              InsertMaskSymbols(MaskInsertionMatrix(mm.res, d.unmask),
                                                input_ids_raw),
                              d.rand_mask) :
                    /\ leave_unmasked_probabilities' = Tail(leave_unmasked_probabilities)
                    /\ mask' = mm.res
                    /\ unmask' = d.unmask
                    /\ rand_mask' = d.rand_mask
                    /\ mask_insertion_matrix' = MaskInsertionMatrix(mm.res, d.unmask)
                    /\ input_ids' = ids
                    /\ y' = Target(mask_patterns, input_ids_raw, mm.res)
                    /\ mpc' = "yielded"
    /\ UNCHANGED <<batch_encoding, mask_patterns>>
    /\ UNCHANGED <<params, _sequences, data_arg, tokenized_sequence_lengths, sequences,
                   data, num_batches, pc, seq_idx>>
    /\ UNCHANGED <<genVars, iterVars>>

(***************************************************************************)
(* Initial states and specifications.                                      *)
(***************************************************************************)
ObjUnset ==
    /\ tokenized_sequence_lengths = <<>>
    /\ sequences = <<>>
    /\ data = NoData
    /\ num_batches = 0
    /\ leave_unmasked_probabilities = <<>>
    /\ seq_idx = 0

GenIdle ==
    /\ gpc = "idle"
    /\ num_tokens_after_truncation = 0
    /\ pattern_size = 0
    /\ all_mask_patterns = {}
    /\ num_patterns = 0
    /\ predetermined_patterns = <<>>
    /\ num_yielded = 0
    /\ yielded = <<>>

IterIdle ==
    /\ pass = 0
    /\ start_ids = <<>>
    /\ drawn_start_ids = <<>>
    /\ chunks = <<>>
    /\ batches = <<>>

MaskIdle ==
    /\ mpc = "idle"
    /\ batch_encoding = <<>>
    /\ mask_patterns = <<>>
    /\ mask = <<>>
    /\ unmask = None
    /\ rand_mask = None
    /\ mask_insertion_matrix = <<>>
    /\ input_ids = <<>>
    /\ y = [none |-> TRUE, values |-> <<>>]

\* the pairs (leave_unmasked_prob_start, leave_unmasked_prob) the asserts of
\* __init__ accept, on the grid of 1 / ProbDen
CurriculumRanges ==
    {c \in (0..ProbDen) \X (0..ProbDen) : c[1] < ProbDen /\ c[1] <= c[2]}

MaskProbabilities ==
    {[auto |-> TRUE, value |-> Rat(0, ProbDen)]} \cup
    {[auto |-> FALSE, value |-> Rat(j, ProbDen)] : j \in 0..ProbDen}

\* ---- the whole life of a DataSet: construction, then passes of iteration ----
PipeMaxSeqs      == 2   \* raw sequences
PipeMaxTokens    == 2   \* tokens in a raw sequence
PipeMaxBatchSize == 3   \* batch_size
PipeMaxPatterns  == 2   \* num_mask_patterns

\* training configurations of the exhaustive-combinatorial mode with
\* mask_pattern_size = 1 (SpecGen covers the generator's other configurations)
PipeParams ==
    {[TrainParams EXCEPT
         !.sample_with_replacement = swr,
         !.max_num_tokens_in_sequence = ml,
         !.leave_unmasked_prob_start = Rat(c[1], ProbDen),
         !.leave_unmasked_prob = Rat(c[2], ProbDen),
         !.consecutive_masking = cm,
         !.mask_pattern_size = 1,
         !.num_mask_patterns = nmp,
         !.probabilistic_masking = pm,
         !.mask_probability = [auto |-> FALSE, value |-> Rat(1, 2)],
         !.batch_size = bs] :
       swr \in BOOLEAN, ml \in {PipeMaxTokens + 1, PipeMaxTokens + 2}, c \in CurriculumRanges,
       cm \in BOOLEAN, nmp \in 1..PipeMaxPatterns, pm \in {FALSE}, bs \in 1..PipeMaxBatchSize}

PipeStrings == {s \in Strings(PipeMaxTokens) : s.words = s.tokens}

Init ==
    /\ pc = "new"
    /\ \/ /\ params \in PipeParams
          /\ _sequences \in SeqsUpTo(PipeStrings, 0, PipeMaxSeqs)
          /\ data_arg = None
       \/ /\ params = ProbingParams
          /\ _sequences \in SeqsUpTo(Strings(PipeMaxTokens), 0, PipeMaxSeqs)
          /\ data_arg \in ForProbingData(_sequences)
    /\ ObjUnset
    /\ GenIdle
    /\ IterIdle
    /\ MaskIdle

Next ==
    \/ DataSetInit
    \/ CallFilter
    \/ BeginData
    \/ GenCall
    \/ GenStep
    \/ GenReturn
    \/ GenRaise
    \/ EndData
    \/ MakeCurriculum
    \/ Iter
    \/ IterNext

Spec == Init /\ [][Next]_vars

\* ---- the Sequence Filter on its own ----
FilterParams ==
    {[TrainParams EXCEPT
         !.max_num_tokens_in_sequence = ml,
         !.allow_truncated_sentences = ats] :
       ml \in 1..MaxMaxLen, ats \in BOOLEAN}

InitFilter ==
    /\ pc = "filter"
    /\ params \in FilterParams \cup {ProbingParams}
    /\ _sequences \in SeqsUpTo(Strings(MaxTokens), 1, MaxSeqs)
    /\ data_arg = None
    /\ ObjUnset
    /\ GenIdle
    /\ IterIdle
    /\ MaskIdle

NextFilter == CallFilter

SpecFilter == InitFilter /\ [][NextFilter]_vars

\* ---- one call of the Mask-Pattern Generator on its own ----
GenParams(n) ==
    {[TrainParams EXCEPT
         !.max_num_tokens_in_sequence = n + 2,
         !.mask_pattern_size = k,
         !.num_mask_patterns = nmp,
         !.probabilistic_masking = pm,
         !.mask_probability = mp] :
       k \in 1..MaxPatternSize, nmp \in 1..MaxNumPatterns, pm \in BOOLEAN,
       mp \in MaskProbabilities}

InitGen ==
    /\ pc = "patterns"
    /\ \E n \in 0..MaxGenTokens :
          /\ params \in {p \in GenParams(n) :
                            p.probabilistic_masking \/ p.mask_probability.auto}
          /\ _sequences = <<[tokens |-> n, words |-> n]>>
          /\ tokenized_sequence_lengths = <<n>>
    /\ sequences = _sequences
    /\ data_arg = None
    /\ data = SomeData(<<>>)
    /\ num_batches = 0
    /\ leave_unmasked_probabilities = <<>>
    /\ seq_idx = 1
    /\ GenIdle
    /\ IterIdle
    /\ MaskIdle

NextGen == GenCall \/ GenStep

SpecGen == InitGen /\ [][NextGen]_vars

\* ---- one call of the Mask/Replace Engine on its own ----
MaxRows      == 2   \* sequences in the batch
MaxRowTokens == 2   \* tokens of a sequence in the batch
MaxSchedule  == 2   \* length of the curriculum the call's value comes from

\* tokenizer.encode_batch: every row is <s>, the tokens, </s>, then padding
\* up to the longest row of the batch
Encode(tokens, width) ==
    [ids |-> <<BosId>> \o tokens \o <<EosId>> \o [i \in 1..(width - Len(tokens) - 2) |-> PadId],
     attention_mask |-> [i \in 1..width |-> IF i <= Len(tokens) + 2 THEN 1 ELSE 0]]

MaxOf(S) == CHOOSE m \in S : \A x \in S : x <= m

EncodeBatch(rows) ==
    LET width == 2 + MaxOf({Len(rows[r]) : r \in 1..Len(rows)})
    IN  [r \in 1..Len(rows) |-> Encode(rows[r], width)]

MaskParams ==
    {[TrainParams EXCEPT
         !.leave_unmasked_prob_start = Rat(c[1], ProbDen),
         !.leave_unmasked_prob = Rat(c[2], ProbDen),
         !.random_token_prob = Rat(rtp, ProbDen)] :
       c \in CurriculumRanges, rtp \in 0..ProbDen}

InitMask ==
    /\ pc = "iterating"
    /\ mpc = "call"
    /\ params \in MaskParams
    /\ \E rows \in SeqsUpTo(SeqsUpTo(num_special_tokens..(VocabSize - 1), 0, MaxRowTokens),
                            1, MaxRows) :
          /\ batch_encoding = EncodeBatch(rows)
          /\ mask_patterns \in
                {mp \in [1..Len(rows) -> SUBSET (0..(MaxRowTokens - 1))] :
                    \A r \in 1..Len(rows) : mp[r] \subseteq 0..(Len(rows[r]) - 1)}
    /\ \E n \in 1..MaxSchedule : \E used \in 0..(n - 1) :
          /\ num_batches = n
          /\ leave_unmasked_probabilities =
                SubSeq(Linspace(params.leave_unmasked_prob_start,
                                params.leave_unmasked_prob, n), used + 1, n)
    /\ _sequences = <<>>
    /\ data_arg = None
    /\ tokenized_sequence_lengths = <<>>
    /\ sequences = <<>>
    /\ data = SomeData(<<>>)
    /\ seq_idx = 0
    /\ mask = <<>>
    /\ unmask = None
    /\ rand_mask = None
    /\ mask_insertion_matrix = <<>>
    /\ input_ids = <<>>
    /\ y = [none |-> TRUE, values |-> <<>>]
    /\ GenIdle
    /\ IterIdle

NextMask == MaskInputIds

SpecMask == InitMask /\ [][NextMask]_vars

(***************************************************************************)
(* Properties.                                                             *)
(***************************************************************************)
RECURSIVE Binomial(_, _)
Binomial(n, k) ==
    IF k < 0 \/ k > n THEN 0
    ELSE IF k = 0 THEN 1
    ELSE Binomial(n - 1, k - 1) + Binomial(n - 1, k)

C1_Retains(s) ==
    params.allow_truncated_sentences \/ ~(s.tokens + 2 > params.max_num_tokens_in_sequence)

\* C1: the Sequence Filter drops a sequence of n tokens exactly when truncation
\* is disallowed and n + 2 > max_len; the retained sequences keep their input
\* order, and the list of token counts is parallel to them, each count being
\* min(max_len - 2, n). (When nothing is retained the function raises instead of
\* returning, and then every sequence was one the rule drops.)
C1_FilterContract ==
    /\ pc = "filtered" =>
          /\ sequences = SelectSeq(_sequences, C1_Retains)
          /\ Len(tokenized_sequence_lengths) = Len(sequences)
          /\ \A i \in 1..Len(sequences) :
                tokenized_sequence_lengths[i] =
                    Min(params.max_num_tokens_in_sequence - 2, sequences[i].tokens)
    /\ pc = "ZeroDivisionError" => SelectSeq(_sequences, C1_Retains) = <<>>

\* a filter run without truncation that kept a sequence of exactly max_len - 2
\* tokens, dropped one of max_len - 1 tokens, and kept at least two sequences
C1_Witness ==
    /\ pc = "filtered"
    /\ ~params.allow_truncated_sentences
    /\ \E i \in 1..Len(_sequences) :
          _sequences[i].tokens = params.max_num_tokens_in_sequence - 1
    /\ \E i \in 1..Len(sequences) :
          /\ sequences[i].tokens = params.max_num_tokens_in_sequence - 2
          /\ tokenized_sequence_lengths[i] = sequences[i].tokens
    /\ Len(sequences) = 2
    /\ sequences[1] # sequences[2]

\* C2 (as claimed): in exhaustive-combinatorial mode a generator call completes
\* and yields exactly min(num_mask_patterns, C(n, min(k, n))) patterns, each
\* non-empty, of min(k, n) indices in 0..n-1, none yielded twice.
C2_ExhaustiveContract ==
    ~params.probabilistic_masking /\ gpc # "idle" =>
        LET n == num_tokens_after_truncation
            k == params.mask_pattern_size
        IN  /\ gpc \notin GenErrors
            /\ gpc = "done" =>
                  Len(yielded) = Min(params.num_mask_patterns, Binomial(n, Min(k, n)))
            /\ \A i \in 1..Len(yielded) :
                  /\ yielded[i] # {}
                  /\ Cardinality(yielded[i]) = Min(k, n)
                  /\ yielded[i] \subseteq 0..(n - 1)
            /\ \A i, j \in 1..Len(yielded) : yielded[i] = yielded[j] => i = j

C3_ValidProbability ==
    \/ params.mask_probability.auto /\ num_tokens_after_truncation > 0
    \/ ValidMaskProbability(params.mask_probability)

\* C3 (as claimed): a probabilistic-mode generator call that has run to
\* completion has yielded exactly num_mask_patterns patterns, none empty, each
\* within 0..n-1.
C3_YieldsConfiguredNumber ==
    params.probabilistic_masking /\ C3_ValidProbability /\ gpc = "done" =>
        /\ Len(yielded) = params.num_mask_patterns
        /\ \A i \in 1..Len(yielded) :
              yielded[i] # {} /\ yielded[i] \subseteq 0..(num_tokens_after_truncation - 1)

Errors ==
    {"AssertionError", "ZeroDivisionError", "RuntimeError", "ValueError",
     "AttributeError", "TypeError", "IndexError"}

CeilDiv(a, b) == (a + b - 1) \div b

RECURSIVE Concat(_)
Concat(ss) == IF ss = <<>> THEN <<>> ELSE Head(ss) \o Concat(Tail(ss))

\* C4 (as claimed): a pass over a freshly constructed dataset of at least one
\* record takes one curriculum value per emitted batch, in schedule order,
\* never runs out of values, and when the pass is over the number of batches
\* produced is num_batches and no value is left.
C4_ScheduleExactlyExhausted ==
    pass = 1 /\ ~data.none /\ Len(data.list) >= 1 =>
        /\ Len(batches) + Len(leave_unmasked_probabilities) = num_batches
        /\ \A j \in 1..Len(batches) :
              batches[j].leave_unmasked_prob =
                  Linspace(params.leave_unmasked_prob_start,
                           params.leave_unmasked_prob, num_batches)[j]
        /\ pc # "RuntimeError"
        /\ pc # "iterating" =>
              Len(batches) = num_batches /\ leave_unmasked_probabilities = <<>>

\* C5: without replacement, over N >= 1 records with batch size B, the chunks
\* the assembler has yielded so far are the consecutive slices
\* data[(j-1)B : jB], each of B records except that the ceil(N/B)-th may be
\* shorter (but not empty); when the assembler is exhausted it has yielded
\* ceil(N/B) chunks whose concatenation is the record list; on the first pass
\* every chunk is emitted as a batch.
C5_WithoutReplacement ==
    pass >= 1 /\ ~params.sample_with_replacement /\ ~data.none /\ Len(data.list) >= 1 =>
        LET N == Len(data.list)
            B == params.batch_size
        IN  /\ Len(chunks) <= CeilDiv(N, B)
            /\ \A j \in 1..Len(chunks) :
                  /\ chunks[j] = SubSeq(data.list, (j - 1) * B + 1, Min(j * B, N))
                  /\ Len(chunks[j]) >= 1
                  /\ Len(chunks[j]) <= B
                  /\ j < CeilDiv(N, B) => Len(chunks[j]) = B
            /\ pc = "exhausted" =>
                  /\ Len(chunks) = CeilDiv(N, B)
                  /\ Concat(chunks) = data.list
            /\ pass = 1 =>
                  /\ pc \in {"iterating", "exhausted"}
                  /\ Len(batches) = Len(chunks)
                  /\ \A j \in 1..Len(batches) : batches[j].records = chunks[j]

\* a finished first pass without replacement over three records in two
\* batches, the last one short, the records not all the same
C5_Witness ==
    /\ pass = 1
    /\ pc = "exhausted"
    /\ ~params.sample_with_replacement
    /\ ~data.none
    /\ Len(data.list) = 3
    /\ data.list[1] # data.list[2]
    /\ Len(chunks) = 2
    /\ Len(chunks[2]) = 1
    /\ Len(batches) = 2

\* C6 (as claimed): with replacement, over N >= 1 records with batch size
\* B >= 1, a pass draws N // B start offsets, each an index into the record
\* list, and yields N // B batches without error, each the non-empty slice from
\* its offset to offset + B or the end of the list.
C6_WithReplacement ==
    pass >= 1 /\ params.sample_with_replacement /\ ~data.none /\ Len(data.list) >= 1 =>
        LET N == Len(data.list)
            B == params.batch_size
        IN  /\ pc # "ValueError"
            /\ pc \in {"iterating", "exhausted"} =>
                  /\ Len(drawn_start_ids) = N \div B
                  /\ \A i \in 1..Len(drawn_start_ids) : drawn_start_ids[i] \in 0..(N - 1)
            /\ \A j \in 1..Len(chunks) :
                  /\ chunks[j] # <<>>
                  /\ chunks[j] = SubSeq(data.list, drawn_start_ids[j] + 1,
                                        Min(drawn_start_ids[j] + B, N))
            /\ pc = "exhausted" => Len(chunks) = N \div B

\* C8 (as claimed): with no sequences, or with every sequence excluded by the
\* filter, construction and iteration raise nothing, and a pass yields no batch.
C8_EmptyDatasetYieldsNothing ==
    _sequences = <<>> \/ SelectSeq(_sequences, C1_Retains) = <<>> =>
        /\ pc \notin Errors
        /\ batches = <<>>

InputIdsRaw == [r \in 1..Len(batch_encoding) |-> batch_encoding[r].ids]

Cells == (1..Len(InputIdsRaw)) \X (1..Len(InputIdsRaw[1]))

At(m, cell) == m[cell[1]][cell[2]]

\* y holds the original ids at the true cells of M, row-major
C_TargetIsOriginalsAtMask ==
    /\ ~y.none
    /\ Len(y.values) = Cardinality(TrueCells(mask))
    /\ \A cell \in TrueCells(mask) :
          y.values[Rank(mask, cell[1], cell[2])] = At(InputIdsRaw, cell)

\* C7 (as claimed): when every row's mask pattern is empty mask_input_ids
\* emits y = None; otherwise y is the original ids at the true cells of M in
\* row-major order.
C7_TargetNoneWithoutMasks ==
    mpc = "yielded" =>
        IF \A r \in 1..Len(mask_patterns) : mask_patterns[r] = {}
        THEN y.none
        ELSE C_TargetIsOriginalsAtMask

C9_Unmasked(cell) == unmask # None /\ At(unmask, cell)

C9_Random(cell) == rand_mask # None /\ At(rand_mask, cell)

C9_Count(flags) == Cardinality({i \in 1..Len(flags) : flags[i]})

C10_NoUnmaskingNoReplacement ==
    /\ RatIsZero(params.leave_unmasked_prob_start)
    /\ RatIsZero(params.leave_unmasked_prob)
    /\ RatIsZero(params.random_token_prob)

\* C10: with leave_unmasked_prob_start = leave_unmasked_prob = 0 and
\* random_token_prob = 0, M is true exactly at (row r, column i + 1) for the
\* indices i of row r's pattern, input_ids is the mask symbol where M is true
\* and the original id elsewhere, and y is the original ids at the true cells
\* of M, row-major: whatever is drawn, the call has this one outcome.
C10_PureMasking ==
    mpc = "yielded" /\ C10_NoUnmaskingNoReplacement =>
        /\ Len(mask) = Len(InputIdsRaw)
        /\ Len(input_ids) = Len(InputIdsRaw)
        /\ \A r \in 1..Len(InputIdsRaw) :
              /\ Len(mask[r]) = Len(InputIdsRaw[r])
              /\ Len(input_ids[r]) = Len(InputIdsRaw[r])
              /\ \A col \in 0..(Len(InputIdsRaw[r]) - 1) :
                    /\ mask[r][col + 1] <=> \E i \in mask_patterns[r] : col = i + 1
                    /\ input_ids[r][col + 1] =
                          IF mask[r][col + 1] THEN MaskId ELSE InputIdsRaw[r][col + 1]
        /\ C_TargetIsOriginalsAtMask

\* a pure-masking call on two rows with a flagged cell in each, the two
\* original ids differing
C10_Witness ==
    /\ mpc = "yielded"
    /\ C10_NoUnmaskingNoReplacement
    /\ Len(mask_patterns) = 2
    /\ mask_patterns[1] # {}
    /\ 1 \in mask_patterns[2]
    /\ Len(y.values) >= 2
    /\ y.values[1] # y.values[Len(y.values)]

RatEq(p, q) == p.num * q.den = q.num * p.den

\* C11: the schedule built at construction has exactly num_batches values, the
\* i-th (0-based) being start + i * (target - start) / (num_batches - 1), or
\* start when num_batches = 1; the first is start, the last is target when
\* num_batches >= 2, the values never decrease; and num_batches is ceil(N / B)
\* without replacement and N // B with replacement.
C11_ScheduleValues ==
    pc = "constructed" /\ ~data.none =>
        LET s == params.leave_unmasked_prob_start
            t == params.leave_unmasked_prob
            n == num_batches
            v == leave_unmasked_probabilities
            N == Len(data.list)
            B == params.batch_size
        IN  /\ n = IF params.sample_with_replacement THEN N \div B ELSE CeilDiv(N, B)
            /\ n >= 1 =>
                  /\ Len(v) = n
                  /\ \A i \in 0..(n - 1) :
                        IF n = 1
                        THEN RatEq(v[i + 1], s)
                        ELSE v[i + 1].num * (s.den * t.den * (n - 1)) =
                                 v[i + 1].den * (s.num * t.den * (n - 1)
                                                 + i * (t.num * s.den - s.num * t.den))
                  /\ RatEq(v[1], s)
                  /\ n >= 2 => RatEq(v[n], t)
                  /\ \A i \in 1..(n - 1) : RatLeq(v[i], v[i + 1])

\* a constructed dataset whose schedule rises from a positive start to a
\* larger target over three batches or more
C11_Witness ==
    /\ pc = "constructed"
    /\ ~data.none
    /\ num_batches >= 3
    /\ Len(leave_unmasked_probabilities) = num_batches
    /\ params.leave_unmasked_prob_start.num > 0
    /\ RatLess(params.leave_unmasked_prob_start, params.leave_unmasked_prob)
    /\ RatLess(leave_unmasked_probabilities[1], leave_unmasked_probabilities[2])

\* the number of batches a complete pass over N records with batch size B
\* yields: one per start id
C12_BatchesOfAPass ==
    IF params.sample_with_replacement
    THEN Len(data.list) \div params.batch_size
    ELSE CeilDiv(Len(data.list), params.batch_size)

\* C12 (as claimed): a second pass over the same dataset, started after a
\* complete first pass, does not fail and, when it is over, has yielded as many
\* batches as the first pass.
C12_RestartableEpochs ==
    pass = 2 =>
        /\ pc \notin Errors
        /\ Len(batches) = Len(chunks)
        /\ pc = "exhausted" => Len(batches) = C12_BatchesOfAPass

\* C13: with replacement over N records with batch size B, every start offset
\* drawn is at most N - B - 1, so every chunk the assembler yields, and every
\* batch emitted, in any pass, is the slice of exactly B records that begins at
\* its offset, and the slice ends before the last record (index N - 1).
C13_FullBatchesWithoutLastRecord ==
    pass >= 1 /\ params.sample_with_replacement /\ ~data.none =>
        LET N == Len(data.list)
            B == params.batch_size
        IN  /\ Len(chunks) <= Len(drawn_start_ids)
            /\ \A j \in 1..Len(chunks) :
                  /\ Len(chunks[j]) = B
                  /\ drawn_start_ids[j] + B - 1 < N - 1
                  /\ chunks[j] = [i \in 1..B |-> data.list[drawn_start_ids[j] + i]]
            /\ Len(batches) <= Len(chunks)
            /\ \A j \in 1..Len(batches) : batches[j].records = chunks[j]

\* a finished pass with replacement over four records that emitted two
\* different batches of two records each
C13_Witness ==
    /\ pass = 1
    /\ pc = "exhausted"
    /\ params.sample_with_replacement
    /\ ~data.none
    /\ Len(data.list) = 4
    /\ params.batch_size = 2
    /\ Len(batches) = 2
    /\ batches[1].records # batches[2].records

====
